---- MODULE Spec2Model ----
(***************************************************************************)
(* Model of Frontend/script.js of HelloHealth (the HealthConnect symptoms  *)
(* portal): the symptom query dispatcher (fetchSymptoms), the result       *)
(* renderer (displayResults), the two click entry points, and the periodic *)
(* hero animation.                                                         *)
(*                                                                         *)
(* Strings are sequences of one-character strings, so that trim() is       *)
(* computed and not assumed.  Numbers that the page shows are computed the *)
(* way the engine computes them: a JSON decimal is read as the nearest     *)
(* IEEE-754 double, the product with 100 is rounded to a double again, and *)
(* Math.round rounds that double (ties toward +Infinity).                  *)
(***************************************************************************)
EXTENDS Integers, Sequences, FiniteSets, TLC

\* ------------------------------------------------------------------ bounds

\* Most queries dispatched in one behaviour.
MaxCalls == 2

\* ----------------------------------------------------------------- strings

Space == " "

\* The texts typed into the input field or carried by a tag: empty,
\* whitespace only, plain, and with whitespace on both sides.
Texts == {<<>>, <<Space>>, <<"f">>, <<Space, "f", Space>>}

RECURSIVE TrimStart(_)
TrimStart(s) ==
    IF s = <<>> THEN <<>>
    ELSE IF Head(s) = Space THEN TrimStart(Tail(s))
    ELSE s

RECURSIVE TrimEnd(_)
TrimEnd(s) ==
    IF s = <<>> THEN <<>>
    ELSE IF s[Len(s)] = Space THEN TrimEnd(SubSeq(s, 1, Len(s) - 1))
    ELSE s

\* String.prototype.trim
Trim(s) == TrimEnd(TrimStart(s))

\* Truthiness of a string: only the empty string is falsy.
Truthy(s) == s # <<>>

\* ----------------------------------------------------------------- numbers
\* Natural numbers wider than 32 bits (a double's significand has 53):
\* little-endian sequences of limbs below Base, with no leading zero limb
\* (zero is <<>>).

Base == 2^15

RECURSIVE Pow2(_)
Pow2(n) == IF n = 0 THEN 1 ELSE 2 * Pow2(n - 1)

RECURSIVE Strip(_)
Strip(a) ==
    IF a = <<>> THEN <<>>
    ELSE IF a[Len(a)] = 0 THEN Strip(SubSeq(a, 1, Len(a) - 1))
    ELSE a

RECURSIVE MulCarry(_, _, _)
MulCarry(a, m, carry) ==
    IF a = <<>> THEN (IF carry = 0 THEN <<>> ELSE <<carry>>)
    ELSE LET t == Head(a) * m + carry
         IN  <<t % Base>> \o MulCarry(Tail(a), m, t \div Base)

\* a * m for 0 <= m < Base
MulSmall(a, m) == Strip(MulCarry(a, m, 0))

RECURSIVE AddCarry(_, _)
AddCarry(a, carry) ==
    IF carry = 0 THEN a
    ELSE IF a = <<>> THEN <<carry>>
    ELSE LET t == Head(a) + carry
         IN  <<t % Base>> \o AddCarry(Tail(a), t \div Base)

\* a + m for 0 <= m < Base
AddSmall(a, m) == AddCarry(a, m)

\* Long division by 0 < d < Base, most significant limb first:
\* the pair <<quotient limbs (little-endian), remainder>>.
RECURSIVE DivStep(_, _, _)
DivStep(a, d, i) ==
    IF i > Len(a) THEN <<a, 0>>
    ELSE LET up == DivStep(a, d, i + 1)
             t  == up[2] * Base + a[i]
         IN  <<[up[1] EXCEPT ![i] = t \div d], t % d>>

DivSmall(a, d) == Strip(DivStep(a, d, 1)[1])

ModSmall(a, d) == DivStep(a, d, 1)[2]

Zeros(n) == [i \in 1..n |-> 0]

\* a * 2^n
ShiftLeft(a, n) ==
    IF a = <<>> THEN <<>>
    ELSE Zeros(n \div 15) \o MulSmall(a, Pow2(n % 15))

\* floor(a / 2^n)
ShiftRight(a, n) ==
    IF n \div 15 >= Len(a) THEN <<>>
    ELSE DivSmall(SubSeq(a, n \div 15 + 1, Len(a)), Pow2(n % 15))

\* a mod 2^n for n < 15
LowBits(a, n) == IF a = <<>> THEN 0 ELSE a[1] % Pow2(n)

IsOdd(a) == a # <<>> /\ a[1] % 2 = 1

RECURSIVE BitLenSmall(_)
BitLenSmall(x) == IF x = 0 THEN 0 ELSE 1 + BitLenSmall(x \div 2)

BitLen(a) == IF a = <<>> THEN 0 ELSE 15 * (Len(a) - 1) + BitLenSmall(a[Len(a)])

\* The value of a number known to be small.
RECURSIVE ToInt(_)
ToInt(a) == IF a = <<>> THEN 0 ELSE Head(a) + Base * ToInt(Tail(a))

\* A finite non-negative double: the value m / 2^e, where m = 0 or m has
\* exactly 53 bits (the 53-bit significand of a normal binary64 number).

\* Round to nearest, ties to even: quotient q with remainder rem out of den.
RoundNearestEven(q, rem2, den) ==
    IF rem2 > den \/ (rem2 = den /\ IsOdd(q)) THEN AddSmall(q, 1) ELSE q

\* A double from an exact value n / 2^e, n of any width: keep 53 bits.
Normalize(n, e) ==
    LET len == BitLen(n)
    IN  IF len <= 53 THEN [m |-> ShiftLeft(n, 53 - len), e |-> e + (53 - len)]
        ELSE LET s == len - 53
                 q == ShiftRight(n, s)
                 r == RoundNearestEven(q, 2 * LowBits(n, s), Pow2(s))
             IN  IF BitLen(r) = 54 THEN [m |-> ShiftRight(r, 1), e |-> e - s - 1]
                 ELSE [m |-> r, e |-> e - s]

RECURSIVE ScaleFor(_, _)
ScaleFor(k, j) == IF k * Pow2(j) >= 1000 THEN j ELSE ScaleFor(k, j + 1)

\* The Number that JSON.parse yields for the decimal literal k/1000
\* (0.855 is k = 855): the double nearest to the decimal value.
ParseThousandths(k) ==
    IF k = 0 THEN [m |-> <<>>, e |-> 0]
    ELSE LET e == 52 + ScaleFor(k, 0)
             n == ShiftLeft(<<k>>, e)
             q == DivSmall(n, 1000)
             r == RoundNearestEven(q, 2 * ModSmall(n, 1000), 1000)
         IN  IF BitLen(r) = 54 THEN [m |-> ShiftRight(r, 1), e |-> e - 1]
             ELSE [m |-> r, e |-> e]

\* x * 100 in double arithmetic: the exact product, rounded to a double.
Times100(x) ==
    IF x.m = <<>> THEN x ELSE Normalize(MulSmall(x.m, 100), x.e)

\* Math.floor(x), in the place of Math.round(x).
MathFloor(x) ==
    IF x.m = <<>> THEN 0 ELSE ToInt(ShiftRight(x.m, x.e))

\* Math.round(x): floor(x + 1/2), ties toward +Infinity, computed exactly
\* as floor((floor(2x) + 1) / 2).
MathRound(x) ==
    IF x.m = <<>> THEN 0
    ELSE IF x.e = 0 THEN ToInt(x.m)
    ELSE (ToInt(ShiftRight(x.m, x.e - 1)) + 1) \div 2

\* Math.round(data.confidence * 100) for the JSON literal k/1000.
RoundedPercent(k) == MathRound(Times100(ParseThousandths(k)))

\* ------------------------------------------------------------------- state

VARIABLES
    inputValue,    \* searchInput.value
    hidden,        \* resultContainer carries the class 'hidden'
    content,       \* resultsList.innerHTML
    calls,         \* where each invocation of fetchSymptoms stands, in the order they began
    nRequests,     \* the number of fetch requests issued
    lastRequest,   \* the latest of them, with the click that caused it
    nCompleted,    \* the number of invocations that ran to their end
    lastResponse,  \* what the network gave the invocation that ended last
    ev,            \* the click listener or continuation of fetchSymptoms that ran last
    prefersReduce, \* matchMedia('(prefers-reduced-motion: reduce)').matches at load
    heroPresent,   \* document.querySelector('.hero-gradient') found an element
    heroAnimate,   \* the hero carries the class 'hero-animate'
    timers,        \* pending setTimeout callbacks and the armed setInterval
    now,           \* milliseconds since the script ran
    unloaded,      \* beforeunload has fired
    plays,         \* the runs of playOnce so far
    restarts,      \* the runs of playOnce that added the class to a hero without it
    late,          \* some timer callback has run after its due time
    renderIn,      \* a response object handed to displayResults on its own
    renderOut,     \* the markup displayResults built from it
    cards          \* the card elements: data-tilt-init, listeners, inline style

queryVars ==
    <<inputValue, hidden, content, calls, nRequests, lastRequest, nCompleted, lastResponse>>

heroVars ==
    <<prefersReduce, heroPresent, heroAnimate, timers, now, unloaded, plays, restarts, late>>

renderVars == <<renderIn, renderOut>>

tiltVars == <<cards>>

vars == <<queryVars, ev, heroVars, renderVars, tiltVars>>

\* ------------------------------------------------------- result rendering

Undefined == "undefined"

\* The text of `${v}` for a string field v, which may be missing.
FieldText(data, f) == IF f \in data.has THEN data[f] ELSE Undefined

\* The text of `${Math.round(data.confidence * 100)}`: undefined * 100 is
\* NaN, which Math.round leaves NaN.
PercentText(data) ==
    IF "confidence" \in data.has
    THEN [nan |-> FALSE, n |-> RoundedPercent(data.confidence)]
    ELSE [nan |-> TRUE, n |-> 0]

\* The markup displayResults builds: two blocks in this order.
ResultMarkup(data) ==
    [kind   |-> "result",
     blocks |-> << [block   |-> "diagnosis",
                    text    |-> FieldText(data, "diagnosis"),
                    percent |-> PercentText(data)],
                   [block   |-> "recommendation",
                    text    |-> FieldText(data, "recommendation"),
                    percent |-> [nan |-> TRUE, n |-> 0]] >>]

Plain(kind) == [kind |-> kind, blocks |-> <<>>]

\* What the page holds before any query.
InitialMarkup == Plain("initial")

\* '<div class="text-center text-gray-500">Searching...</div>'
SearchingMarkup == Plain("searching")

\* '<div class="bg-red-100 ...">An error occurred. Please try again later.</div>'
ErrorMarkup == Plain("error")

\* Reading data.diagnosis throws a TypeError when data is null.
DisplayThrows(data) == data.null

\* displayResults(data), when it does not throw: the new resultsList.innerHTML.
displayResults(data) == ResultMarkup(data)

\* ------------------------------------------------------- network outcomes

FieldNames == {"diagnosis", "confidence", "recommendation"}

NullData ==
    [null |-> TRUE, has |-> {}, diagnosis |-> Undefined, confidence |-> 0,
     recommendation |-> Undefined]

ObjectData(has, k) ==
    [null |-> FALSE, has |-> has,
     diagnosis |-> IF "diagnosis" \in has THEN "Flu" ELSE Undefined,
     confidence |-> IF "confidence" \in has THEN k ELSE 0,
     recommendation |-> IF "recommendation" \in has THEN "Rest" ELSE Undefined]

\* What response.json() can resolve to: null, a whole DiagnosisResult, or
\* one that lacks a field.
DataValues ==
    {NullData, ObjectData(FieldNames, 855)}
        \cup {ObjectData(FieldNames \ {f}, 855) : f \in FieldNames}

Statuses == {200, 299, 300, 404}

\* response.ok
Ok(status) == status >= 200 /\ status <= 299

NoResponse == [call |-> 0, kind |-> "none", data |-> NullData]

NoRequest == [call |-> 0, body |-> [symptoms |-> <<>>], raw |-> <<>>, trigger |-> "none"]

\* ---------------------------------------------------------- fetchSymptoms

\* A catch block that shows which failure it caught.
CatchMarkupWithDetail(resp) ==
    [kind |-> "error", blocks |-> << [block |-> resp.kind, text |-> Undefined,
                                     percent |-> [nan |-> TRUE, n |-> 0]] >>]

\* The catch block: the new resultsList.innerHTML.
CatchMarkup(resp) == ErrorMarkup

\* A reveal placed at the end of the try block: skipped when something threw.
HiddenUnlessDisplayed(resp) == resp.kind # "data" \/ resp.data.null

\* The finally block: whether resultContainer stays hidden after it.
FinallyHidden(resp) == FALSE

\* A guard that lets only the query issued last write its outcome.
WrittenIfLatest(c, markup) == IF c = Len(calls) THEN markup ELSE content

\* What resultsList.innerHTML holds after call c has written markup to it.
Written(c, markup) == markup

\* The request fetchSymptoms(symptoms) sends.
RequestBody(symptoms) == [symptoms |-> symptoms]

\* A dispatch that leaves the container's class list as it is.
HiddenOnDispatchKept(h) == h

\* resultContainer.classList.add('hidden'): whether the container is
\* hidden after it, having been hidden or not (h) before.
HiddenOnDispatch(h) == TRUE

\* fetchSymptoms(symptoms) up to its first await: hide the container, show
\* the placeholder, issue the request.  raw and kind record the click.
Dispatch(symptoms, raw, kind) ==
    /\ hidden' = HiddenOnDispatch(hidden)
    /\ content' = SearchingMarkup
    /\ nRequests' = nRequests + 1
    /\ lastRequest' = [call |-> Len(calls) + 1, body |-> RequestBody(symptoms),
                       raw |-> raw, trigger |-> kind]
    /\ calls' = Append(calls, "fetch")
    /\ ev' = [kind |-> kind, call |-> Len(calls) + 1]

\* The end of fetchSymptoms for call c on a failure: catch, then finally.
Fail(c, resp) ==
    /\ content' = Written(c, CatchMarkup(resp))
    /\ hidden' = FinallyHidden(resp)
    /\ calls' = [calls EXCEPT ![c] = "done"]
    /\ nCompleted' = nCompleted + 1
    /\ lastResponse' = resp
    /\ ev' = [kind |-> "complete", call |-> c]
    /\ UNCHANGED <<inputValue, nRequests, lastRequest>>

\* The end of fetchSymptoms for call c on success: displayResults, then finally.
Succeed(c, resp) ==
    /\ content' = Written(c, displayResults(resp.data))
    /\ hidden' = FinallyHidden(resp)
    /\ calls' = [calls EXCEPT ![c] = "done"]
    /\ nCompleted' = nCompleted + 1
    /\ lastResponse' = resp
    /\ ev' = [kind |-> "complete", call |-> c]
    /\ UNCHANGED <<inputValue, nRequests, lastRequest>>

Awaiting(c, pc) == c \in 1..Len(calls) /\ calls[c] = pc

\* await fetch(...) rejects: a network error.
FetchRejects(c) ==
    /\ Awaiting(c, "fetch")
    /\ Fail(c, [call |-> c, kind |-> "rejected", data |-> NullData])
    /\ UNCHANGED <<heroVars, renderVars, tiltVars>>

\* await fetch(...) resolves with a response of this status.
FetchResolves(c, status) ==
    /\ Awaiting(c, "fetch")
    /\ IF ~Ok(status)
       THEN Fail(c, [call |-> c, kind |-> "status", data |-> NullData])
       ELSE /\ calls' = [calls EXCEPT ![c] = "json"]
            /\ ev' = [kind |-> "response", call |-> c]
            /\ UNCHANGED <<inputValue, hidden, content, nRequests, lastRequest,
                           nCompleted, lastResponse>>
    /\ UNCHANGED <<heroVars, renderVars, tiltVars>>

\* await response.json() rejects: the body is not JSON.
JsonRejects(c) ==
    /\ Awaiting(c, "json")
    /\ Fail(c, [call |-> c, kind |-> "badjson", data |-> NullData])
    /\ UNCHANGED <<heroVars, renderVars, tiltVars>>

\* await response.json() resolves with data.
JsonResolves(c, data) ==
    /\ Awaiting(c, "json")
    /\ LET resp == [call |-> c, kind |-> "data", data |-> data]
       IN  IF DisplayThrows(data) THEN Fail(c, resp) ELSE Succeed(c, resp)
    /\ UNCHANGED <<heroVars, renderVars, tiltVars>>

\* ------------------------------------------------------------- input wiring

\* The user edits the text field.
TypeInput(s) ==
    /\ s # inputValue
    /\ inputValue' = s
    /\ ev' = [kind |-> "type", call |-> 0]
    /\ UNCHANGED <<hidden, content, calls, nRequests, lastRequest, nCompleted,
                   lastResponse>>
    /\ UNCHANGED <<heroVars, renderVars, tiltVars>>

\* The field's text taken as it is.
SearchSymptomsUntrimmed(value) == value

\* The text the search button searches for: searchInput.value.trim()
SearchSymptoms(value) == Trim(value)

\* searchBtn click listener
SearchClick ==
    /\ LET symptoms == SearchSymptoms(inputValue)
       IN  IF Truthy(symptoms)
           THEN /\ Len(calls) < MaxCalls
                /\ Dispatch(symptoms, inputValue, "search")
                /\ UNCHANGED <<inputValue, nCompleted, lastResponse>>
           ELSE /\ ev' = [kind |-> "search", call |-> 0]
                /\ UNCHANGED queryVars
    /\ UNCHANGED <<heroVars, renderVars, tiltVars>>

\* A tag click that trims the label as the search button trims the field.
TagSymptomsTrimmed(label) == Trim(label)

\* The text a tag click searches for, given the tag's textContent.
TagSymptoms(label) == label

\* symptomTags click listener, for a tag whose textContent is label
TagClick(label) ==
    /\ Len(calls) < MaxCalls
    /\ inputValue' = TagSymptoms(label)
    /\ Dispatch(TagSymptoms(label), label, "tag")
    /\ UNCHANGED <<nCompleted, lastResponse>>
    /\ UNCHANGED <<heroVars, renderVars, tiltVars>>

\* ---------------------------------------------------- periodic hero animation

PLAY_INTERVAL_MS == 10000

REMOVE_AFTER_MS == 1200

INITIAL_DELAY_MS == 220

\* The furthest the clock is followed.
MaxTime == 31000

\* How long after its due time a timer callback may run (a busy or
\* throttled event loop), when it does not run on time.
LateBy == 9000

\* The early return without the reduced-motion test.
HeroSkippedOnlyWithoutHero(reduce, present) == ~present

\* Whether periodicHeroAnimation returns before scheduling anything.
HeroSkipped(reduce, present) == reduce \/ ~present

\* The timers periodicHeroAnimation leaves armed when it has run.
HeroTimersAtLoad(reduce, present) ==
    IF HeroSkipped(reduce, present) THEN {}
    ELSE {[kind |-> "initial", due |-> INITIAL_DELAY_MS],
          [kind |-> "interval", due |-> PLAY_INTERVAL_MS]}

\* hero.classList.remove('hero-animate') at the start of playOnce:
\* whether the class is still there after it.
ClassAfterEnsureAbsent(cls) == FALSE

\* playOnce(), running at time t
playOnce(t) ==
    /\ restarts' = IF ClassAfterEnsureAbsent(heroAnimate) THEN restarts ELSE restarts + 1
    /\ heroAnimate' = TRUE
    /\ plays' = plays + 1

RemoveTimer(t) == [kind |-> "remove", due |-> t + REMOVE_AFTER_MS]

\* Timers run in the order of their due times.
NextDue(t) == t \in timers /\ \A u \in timers : t.due <= u.due

RunTimes(t) ==
    LET onTime == IF t.due > now THEN t.due ELSE now
    IN  {r \in {onTime, onTime + LateBy} : r <= MaxTime}

\* The callback of window.setTimeout(playOnce, 220)
InitialPlay ==
    \E t \in timers : \E r \in RunTimes(t) :
        /\ NextDue(t) /\ t.kind = "initial"
        /\ now' = r /\ late' = (late \/ r > t.due)
        /\ playOnce(r)
        /\ timers' = (timers \ {t}) \cup {RemoveTimer(r)}
        /\ ev' = [kind |-> "initialPlay", call |-> 0]
        /\ UNCHANGED <<prefersReduce, heroPresent, unloaded>>
        /\ UNCHANGED <<queryVars, renderVars, tiltVars>>

\* A tick of setInterval(playOnce, PLAY_INTERVAL_MS), which re-arms itself
IntervalPlay ==
    \E t \in timers : \E r \in RunTimes(t) :
        /\ NextDue(t) /\ t.kind = "interval"
        /\ now' = r /\ late' = (late \/ r > t.due)
        /\ playOnce(r)
        /\ timers' = (timers \ {t})
                        \cup {RemoveTimer(r), [kind |-> "interval", due |-> r + PLAY_INTERVAL_MS]}
        /\ ev' = [kind |-> "intervalPlay", call |-> 0]
        /\ UNCHANGED <<prefersReduce, heroPresent, unloaded>>
        /\ UNCHANGED <<queryVars, renderVars, tiltVars>>

\* The callback of setTimeout(() => hero.classList.remove('hero-animate'), REMOVE_AFTER_MS)
RemoveClass ==
    \E t \in timers : \E r \in RunTimes(t) :
        /\ NextDue(t) /\ t.kind = "remove"
        /\ now' = r /\ late' = (late \/ r > t.due)
        /\ heroAnimate' = FALSE
        /\ timers' = timers \ {t}
        /\ ev' = [kind |-> "removeClass", call |-> 0]
        /\ UNCHANGED <<prefersReduce, heroPresent, unloaded, plays, restarts>>
        /\ UNCHANGED <<queryVars, renderVars, tiltVars>>

\* The timers left after the beforeunload listeners have run.
TimersAfterUnload(ts) == {t \in ts : t.kind # "interval"}

\* beforeunload fires; the listener, where one was added, clears the interval.
BeforeUnload ==
    /\ ~unloaded
    /\ unloaded' = TRUE
    /\ timers' = TimersAfterUnload(timers)
    /\ ev' = [kind |-> "unload", call |-> 0]
    /\ UNCHANGED <<prefersReduce, heroPresent, heroAnimate, now, plays, restarts, late>>
    /\ UNCHANGED <<queryVars, renderVars, tiltVars>>

\* ------------------------------------------------------------ tilt and glare

\* Largest width and height of a card, in pixels.
MaxSide == 2

\* Exact fractions n / d with d > 0, for the quotients handleMove forms.
Frac(n, d) == [n |-> n, d |-> d]

FracLe(a, b) == a.n * b.d <= b.n * a.d

FracEq(a, b) == a.n * b.d = b.n * a.d

\* The elements querySelectorAll(selectors) can match.
CardIds == {"a", "b"}

\* card.getBoundingClientRect()
Rects ==
    {[left |-> 3, top |-> t, width |-> w, height |-> h] :
        t \in {0, 2}, w \in 1..MaxSide, h \in 1..MaxSide}

\* The pointer positions tried on a card: inside its box, on its edges
\* and one pixel outside on every side.
PointerXs(r) == (r.left - 1)..(r.left + r.width + 1)

PointerYs(r) == (r.top - 1)..(r.top + r.height + 1)

NoRect == [left |-> 0, top |-> 0, width |-> 0, height |-> 0]

\* --g holds 1 - dist * 1.5 before clamping.  That number is kept as the
\* fraction fall = (dist * 1.5)^2, so that g = 1 - sqrt(fall): g = 1 is
\* fall = 0, g = 0 is fall = 1, and g lies in [0, 1] exactly when fall
\* lies in [0, 1].
GlareOne == Frac(0, 1)

GlareZero == Frac(1, 1)

\* A card as the page holds it before initTiltCards has seen it.
BareCard(present, r) ==
    [present |-> present, bounding |-> r,
     tiltInit |-> FALSE, handlerSets |-> 0, defaultWrites |-> 0,
     rect |-> NoRect,
     transform |-> [kind |-> "none", rotateX |-> Frac(0, 1), rotateY |-> Frac(0, 1)],
     px |-> Frac(0, 1), py |-> Frac(0, 1), g |-> GlareZero, styled |-> FALSE,
     transition |-> "none", shadow |-> FALSE,
     pointer |-> [x |-> 0, y |-> 0]]

\* const clamp = v => Math.max(0, Math.min(1, v))
clamp(v) ==
    LET least == IF FracLe(Frac(1, 1), v) THEN Frac(1, 1) ELSE v
    IN  IF FracLe(least, Frac(0, 1)) THEN Frac(0, 1) ELSE least

\* (cx - 0.5) * 20
RotateY(cx) == Frac(20 * (2 * cx.n - cx.d), 2 * cx.d)

\* (0.5 - cy) * 20
RotateX(cy) == Frac(20 * (cy.d - 2 * cy.n), 2 * cy.d)

\* (dist * 1.5)^2 for dist = Math.sqrt(dx*dx + dy*dy), dx = cx - 0.5, dy = cy - 0.5
Fall(cx, cy) ==
    LET dxn == 2 * cx.n - cx.d
        dyn == 2 * cy.n - cy.d
    IN  Frac(9 * (dxn * dxn * cy.d * cy.d + dyn * dyn * cx.d * cx.d),
             16 * cx.d * cx.d * cy.d * cy.d)

\* Math.max(0, Math.min(1, 1 - dist * 1.5)), on fall: 1 - dist * 1.5 is
\* never above 1, and is below 0 exactly when fall is above 1.
Glare(fall) == IF FracLe(fall, Frac(1, 1)) THEN fall ELSE GlareZero

\* A guard that never finds the card initialised.
TiltGuardMissing(flag) == FALSE

\* if (card.dataset.tiltInit) return;
TiltGuard(flag) == flag

\* The body of cards.forEach in initTiltCards, for one matched card.
InitCard(card) ==
    IF TiltGuard(card.tiltInit) THEN card
    ELSE [card EXCEPT !.tiltInit = TRUE,
                      !.px = Frac(50, 1), !.py = Frac(50, 1), !.g = GlareZero,
                      !.styled = TRUE,
                      !.defaultWrites = @ + 1,
                      !.handlerSets = @ + 1]

\* initTiltCards()
initTiltCards ==
    /\ cards' = [c \in CardIds |-> IF cards[c].present THEN InitCard(cards[c]) ELSE cards[c]]
    /\ ev' = [kind |-> "initTilt", call |-> 0]
    /\ UNCHANGED <<queryVars, heroVars, renderVars>>

\* A card that was not in the document is inserted.
CardAppears(c) ==
    /\ ~cards[c].present
    /\ cards' = [cards EXCEPT ![c].present = TRUE]
    /\ ev' = [kind |-> "appear", call |-> 0]
    /\ UNCHANGED <<queryVars, heroVars, renderVars>>

\* The page scrolls or is laid out again: the card's box, which
\* getBoundingClientRect() reports relative to the viewport, moves to top t.
CardScrolls(c, t) ==
    /\ cards[c].present
    /\ t # cards[c].bounding.top
    /\ cards' = [cards EXCEPT ![c].bounding.top = t]
    /\ ev' = [kind |-> "scroll", call |-> 0]
    /\ UNCHANGED <<queryVars, heroVars, renderVars>>

Listening(c) == cards[c].present /\ cards[c].handlerSets > 0

\* handleEnter, on mouseenter or touchstart
handleEnter(c) ==
    /\ Listening(c)
    /\ cards' = [cards EXCEPT ![c].rect = cards[c].bounding,
                              ![c].transition = "150ms",
                              ![c].shadow = TRUE]
    /\ ev' = [kind |-> "enter", call |-> 0]
    /\ UNCHANGED <<queryVars, heroVars, renderVars>>

\* handleMove(e), on mousemove or touchmove, the pointer at (clientX, clientY)
handleMove(c, clientX, clientY) ==
    /\ Listening(c)
    /\ LET rect == IF cards[c].rect # NoRect THEN cards[c].rect ELSE cards[c].bounding
           x    == Frac(clientX - rect.left, rect.width)
           y    == Frac(clientY - rect.top, rect.height)
           cx   == clamp(x)
           cy   == clamp(y)
       IN  cards' = [cards EXCEPT
                        ![c].rect = rect,
                        ![c].transform = [kind |-> "tilt", rotateX |-> RotateX(cy),
                                          rotateY |-> RotateY(cx)],
                        ![c].px = Frac(100 * cx.n, cx.d),
                        ![c].py = Frac(100 * cy.n, cy.d),
                        ![c].g = Glare(Fall(cx, cy)),
                        ![c].pointer = [x |-> clientX, y |-> clientY]]
    /\ ev' = [kind |-> "move", call |-> 0]
    /\ UNCHANGED <<queryVars, heroVars, renderVars>>

\* handleLeave, on mouseleave or touchend
handleLeave(c) ==
    /\ Listening(c)
    /\ cards' = [cards EXCEPT
                    ![c].transition = "600ms",
                    ![c].transform = [kind |-> "neutral", rotateX |-> Frac(0, 1),
                                      rotateY |-> Frac(0, 1)],
                    ![c].shadow = FALSE,
                    ![c].g = GlareZero,
                    ![c].rect = NoRect]
    /\ ev' = [kind |-> "leave", call |-> 0]
    /\ UNCHANGED <<queryVars, heroVars, renderVars>>

\* ------------------------------------------------------------ the renderer alone

Thousandths == 0..1000

\* displayResults applied to the response object renderIn
Render ==
    /\ renderOut = InitialMarkup
    /\ renderOut' = displayResults(renderIn)
    /\ ev' = [kind |-> "render", call |-> 0]
    /\ UNCHANGED <<queryVars, heroVars, renderIn, tiltVars>>

\* ---------------------------------------------------------- specifications

\* The page as loaded: an empty field, and the results container hidden
\* until the first query reveals it.
QueryInit ==
    /\ inputValue = <<>>
    /\ hidden = TRUE
    /\ content = InitialMarkup
    /\ calls = <<>>
    /\ nRequests = 0
    /\ lastRequest = NoRequest
    /\ nCompleted = 0
    /\ lastResponse = NoResponse

HeroInit(reduces, presents) ==
    /\ prefersReduce \in reduces
    /\ heroPresent \in presents
    /\ heroAnimate = FALSE
    /\ timers = HeroTimersAtLoad(prefersReduce, heroPresent)
    /\ now = 0
    /\ unloaded = FALSE
    /\ plays = 0
    /\ restarts = 0
    /\ late = FALSE

RenderInit(ks) ==
    /\ renderIn \in {ObjectData(FieldNames, k) : k \in ks}
    /\ renderOut = InitialMarkup

NoEvent == [kind |-> "load", call |-> 0]

\* The page without cards.
NoCards == cards = [c \in CardIds |-> BareCard(FALSE, NoRect)]

\* The symptom query UI.
Init ==
    /\ QueryInit
    /\ HeroInit({TRUE}, {TRUE})
    /\ RenderInit({850})
    /\ NoCards
    /\ ev = NoEvent

Settle(c) ==
    \/ FetchRejects(c)
    \/ \E status \in Statuses : FetchResolves(c, status)
    \/ JsonRejects(c)
    \/ \E data \in DataValues : JsonResolves(c, data)

Next ==
    \/ \E s \in Texts : TypeInput(s)
    \/ SearchClick
    \/ \E label \in Texts : TagClick(label)
    \/ \E c \in 1..MaxCalls : Settle(c)

Spec == Init /\ [][Next]_vars

\* The same, with the network settling calls: while a call is outstanding,
\* some outstanding call settles at last.  A call stays outstanding until
\* it settles, so this follows from every call settling at last.
FairSpec == Spec /\ WF_vars(\E c \in 1..MaxCalls : Settle(c))

\* The hero animation, with timers that fire.
HeroInitAll ==
    /\ QueryInit
    /\ HeroInit(BOOLEAN, BOOLEAN)
    /\ RenderInit({850})
    /\ NoCards
    /\ ev = NoEvent

HeroNext ==
    \/ InitialPlay
    \/ IntervalPlay
    \/ RemoveClass
    \/ BeforeUnload

HeroSpec == HeroInitAll /\ [][HeroNext]_vars /\ WF_vars(InitialPlay \/ IntervalPlay \/ RemoveClass)

\* displayResults on its own, over every confidence in thousandths.
RenderInitAll ==
    /\ QueryInit
    /\ HeroInit({TRUE}, {TRUE})
    /\ RenderInit(Thousandths)
    /\ NoCards
    /\ ev = NoEvent

RenderSpec == RenderInitAll /\ [][Render]_vars

\* One card of any size, under the pointer.
TiltInit ==
    /\ QueryInit
    /\ HeroInit({TRUE}, {TRUE})
    /\ RenderInit({850})
    /\ \E r \in Rects :
          cards = [c \in CardIds |-> IF c = "a" THEN BareCard(TRUE, r)
                                     ELSE BareCard(FALSE, NoRect)]
    /\ ev = NoEvent

TiltNext ==
    \/ initTiltCards
    \/ handleEnter("a")
    \/ \E x \in PointerXs(cards["a"].bounding), y \in PointerYs(cards["a"].bounding) :
          handleMove("a", x, y)
    \/ handleLeave("a")
    \/ \E t \in {0, 2} : CardScrolls("a", t)

TiltSpec == TiltInit /\ [][TiltNext]_vars

\* Cards of one size that come into the document at any time, and
\* initTiltCards called any number of times.
SquareCard == [left |-> 3, top |-> 0, width |-> 2, height |-> 2]

TiltInitInit ==
    /\ QueryInit
    /\ HeroInit({TRUE}, {TRUE})
    /\ RenderInit({850})
    /\ \E here \in SUBSET CardIds :
          cards = [c \in CardIds |-> BareCard(c \in here, SquareCard)]
    /\ ev = NoEvent

TiltInitNext ==
    \/ initTiltCards
    \/ \E c \in CardIds : CardAppears(c)
    \/ \E c \in CardIds : handleEnter(c)
    \/ \E c \in CardIds : \E x \in {3, 4}, y \in {0, 1} : handleMove(c, x, y)
    \/ \E c \in CardIds : handleLeave(c)

TiltInitSpec == TiltInitInit /\ [][TiltInitNext]_vars

\* ------------------------------------------------------------------ properties

\* The markup a settled response should leave: the rendered result for a
\* non-null body, the error message for everything else.
Outcome(resp) ==
    IF resp.kind = "data" /\ ~resp.data.null THEN ResultMarkup(resp.data) ELSE ErrorMarkup

\* The invocation that ended last has just ended.
JustCompleted == ev = [kind |-> "complete", call |-> lastResponse.call]

Done(c) == calls[c] = "done"

AllDone == \A c \in 1..Len(calls) : Done(c)

\* C1 (as claimed): every click whose text is non-empty after trimming
\* issues exactly one request, whose body is {symptoms: <trimmed text>};
\* no invocation issues a second request; and the requests issued are as
\* many as such clicks, so that none stems from a click whose text is
\* empty after trimming.
C1_OneRequestPerTrigger ==
    /\ nRequests = Len(calls)
    /\ lastRequest.trigger # "none"
          => /\ Trim(lastRequest.raw) # <<>>
             /\ lastRequest.body = [symptoms |-> Trim(lastRequest.raw)]

\* C2 (as claimed): no request is sent whose symptoms are empty after
\* trimming, and the symptoms sent are the trimmed text of the click, from
\* the search button and from a tag alike.
C2_NeverSentEmptyOrUntrimmed ==
    lastRequest.trigger # "none"
        => /\ Trim(lastRequest.body.symptoms) # <<>>
           /\ lastRequest.body.symptoms = Trim(lastRequest.raw)

\* C3: a click on the search button while the field is empty or holds only
\* whitespace issues no request and leaves the results list, the
\* container's hidden state and the field as they were.
C3_EmptySearchDoesNothing ==
    [][(ev'.kind = "search" /\ Trim(inputValue) = <<>>) => UNCHANGED queryVars]_vars

\* An empty search click has just run over a shown result and a
\* whitespace-only field.
C3_Witness ==
    /\ ev = [kind |-> "search", call |-> 0]
    /\ inputValue = <<Space>>
    /\ content.kind = "result"
    /\ ~hidden
    /\ nRequests = 1

\* C4: when a query ends because fetch rejected or the status was outside
\* 200..299, the results list holds exactly the fixed error message, the
\* same for both, and the container is visible.
C4_FailureShowsFixedError ==
    (JustCompleted /\ lastResponse.kind \in {"rejected", "status"})
        => (content = ErrorMarkup /\ ~hidden)

\* A query has just ended on a non-2xx status.
C4_Witness ==
    /\ JustCompleted
    /\ lastResponse.kind = "status"
    /\ content = ErrorMarkup
    /\ ~hidden

\* C5 (as claimed): a 2xx response whose body is not JSON, is null or
\* lacks a DiagnosisResult field ends with the fixed error message, never
\* with a partly rendered result.
C5_MalformedBodyIsFailure ==
    (/\ JustCompleted
     /\ \/ lastResponse.kind = "badjson"
        \/ /\ lastResponse.kind = "data"
           /\ (lastResponse.data.null \/ lastResponse.data.has # FieldNames))
        => content = ErrorMarkup

\* A click has just dispatched a query, which hid the container.
JustDispatched == ev.kind \in {"search", "tag"} /\ ev.call # 0 /\ hidden

\* C6: every query that ends, on success and on every failure, leaves the
\* container visible as it ends; and when every network call settles,
\* every click that dispatched a query is followed by a state in which the
\* container is visible.
C6_AlwaysRevealed ==
    /\ [][ev'.kind = "complete" => ~hidden']_vars
    /\ JustDispatched ~> ~hidden

\* A query has just ended on a rejected fetch, and the container is visible.
C6_Witness ==
    /\ JustCompleted
    /\ lastResponse.kind = "rejected"
    /\ ~hidden

\* C7: overlapping queries are neither cancelled nor merged: each has its
\* own request, each runs to its end once, and when all have ended the
\* results list holds the outcome of the one that ended last, whichever
\* was issued last.
C7_LastCompletedWins ==
    /\ nRequests = Len(calls)
    /\ nCompleted = Cardinality({c \in 1..Len(calls) : Done(c)})
    /\ nCompleted > 0 => (lastResponse.call \in 1..Len(calls) /\ Done(lastResponse.call))
    /\ (AllDone /\ nCompleted > 0) => content = Outcome(lastResponse)

\* Two queries overlapped and both ended, the first issued after the
\* second, and the first's outcome, a rendered result, is what is shown.
C7_Witness ==
    /\ Len(calls) = 2
    /\ AllDone
    /\ nCompleted = 2
    /\ JustCompleted
    /\ lastResponse.call = 1
    /\ content = Outcome(lastResponse)
    /\ content.kind = "result"

\* C8: a click on a tag with label L sets the field to L and, in the same
\* step, issues exactly one request with body {symptoms: L}, whatever the
\* field held.
C8_TagFillsAndSearches ==
    [][ev'.kind = "tag"
          => /\ lastRequest'.trigger = "tag"
             /\ inputValue' = lastRequest'.raw
             /\ lastRequest'.body = [symptoms |-> lastRequest'.raw]
             /\ nRequests' = nRequests + 1
             /\ Len(calls') = Len(calls) + 1]_vars

\* A tag with whitespace around its label was clicked as the second query.
C8_Witness ==
    /\ ev = [kind |-> "tag", call |-> 2]
    /\ lastRequest.raw = <<Space, "f", Space>>
    /\ inputValue = <<Space, "f", Space>>
    /\ lastRequest.body = [symptoms |-> <<Space, "f", Space>>]
    /\ nRequests = 2

\* Round half up of k/1000 as a percentage, in exact arithmetic.
HalfUpPercent(k) == (k + 5) \div 10

TwoBlocks(out, data) ==
    /\ out.kind = "result"
    /\ Len(out.blocks) = 2
    /\ out.blocks[1].block = "diagnosis"
    /\ out.blocks[1].text = data.diagnosis
    /\ ~out.blocks[1].percent.nan
    /\ out.blocks[2].block = "recommendation"
    /\ out.blocks[2].text = data.recommendation

\* C9 (as claimed): the fragment is the diagnosis block, with the
\* diagnosis and the percentage, then the recommendation block; for every
\* confidence in thousandths within [0, 1] the percentage is the
\* round-half-up value.
C9_PercentIsHalfUp ==
    renderOut # InitialMarkup
        => /\ TwoBlocks(renderOut, renderIn)
           /\ renderOut.blocks[1].percent.n = HalfUpPercent(renderIn.confidence)

\* The thousandths whose product with 100, as a double, lies just below
\* the half: 0.145, 0.285, 0.565, 0.575.
BelowHalf == {145, 285, 565, 575}

\* C9 (amended): the fragment is the diagnosis block, with the diagnosis
\* and the percentage, then the recommendation block; the percentage is
\* the round-half-up value for every confidence in thousandths within
\* [0, 1] except 0.145, 0.285, 0.565 and 0.575, where it is one less
\* (14, 28, 56, 57); 0.85, 0.854 and 0.855 give 85, 85 and 86.
C9_PercentIsMathRound ==
    renderOut # InitialMarkup
        => /\ TwoBlocks(renderOut, renderIn)
           /\ renderOut.blocks[1].percent.n =
                 IF renderIn.confidence \in BelowHalf
                 THEN HalfUpPercent(renderIn.confidence) - 1
                 ELSE HalfUpPercent(renderIn.confidence)
           /\ renderIn.confidence = 850 => renderOut.blocks[1].percent.n = 85
           /\ renderIn.confidence = 854 => renderOut.blocks[1].percent.n = 85
           /\ renderIn.confidence = 855 => renderOut.blocks[1].percent.n = 86

\* 0.145 has been rendered, as 14%.
C9_Witness ==
    /\ renderIn.confidence = 145
    /\ TwoBlocks(renderOut, renderIn)
    /\ renderOut.blocks[1].percent.n = 14

HeroRuns == ~prefersReduce /\ heroPresent

\* C10: with the reduced-motion preference set at load the class is never
\* applied and no play is ever scheduled.  Without it (and with a hero
\* element) the class is applied first by the initial play, no sooner than
\* the initial delay, and then by every interval tick, ticks being at
\* least 10 s apart; every play puts the class on a hero from which it was
\* removed, by the removal timer when timers run on time; and no interval
\* play follows beforeunload.
C10_HeroAnimation ==
    /\ [](prefersReduce => (~heroAnimate /\ plays = 0 /\ timers = {}))
    /\ [](plays = 0 => ~heroAnimate)
    /\ [](restarts = plays)
    /\ [][ev'.kind = "initialPlay"
             => (plays = 0 /\ heroAnimate' /\ now' >= INITIAL_DELAY_MS
                 /\ (~late' => now' = INITIAL_DELAY_MS))]_vars
    /\ [][ev'.kind = "intervalPlay"
             => (plays >= 1 /\ heroAnimate' /\ now' >= plays * PLAY_INTERVAL_MS
                 /\ (~late' => (now' = plays * PLAY_INTERVAL_MS /\ ~heroAnimate)))]_vars
    /\ [][unloaded => ev'.kind # "intervalPlay"]_vars
    /\ HeroRuns => <>(plays >= 1)
    /\ (HeroRuns /\ []~unloaded) => <>(plays >= 2)

\* The initial play and two interval ticks ran on time, the class was
\* removed after the last, and the page then began to unload.
C10_Witness ==
    /\ HeroRuns
    /\ plays = 3
    /\ ~late
    /\ ~heroAnimate
    /\ unloaded
    /\ ev.kind = "unload"

Outstanding == {c \in 1..Len(calls) : ~Done(c)}

Settled(markup) == markup.kind \in {"result", "error"}

\* C13 (as claimed): in every state in which a request is outstanding the
\* results container is hidden, also when queries overlap.
C13_HiddenWhileInFlight == Outstanding # {} => hidden

\* C14: whenever the results container is visible, the results list holds
\* a rendered result or the error message and never the 'Searching...'
\* placeholder, under every interleaving of clicks and completions; and
\* whenever a query has been dispatched and none is outstanding, the
\* container is visible with a rendered result or the error message.
C14_VisibleMeansSettled ==
    /\ ~hidden => (Settled(content) /\ content # SearchingMarkup)
    /\ (nRequests > 0 /\ Outstanding = {}) => (~hidden /\ Settled(content))

\* The first of two overlapping queries has ended and its result is
\* visible while the second is still outstanding.
C14_Witness ==
    /\ Len(calls) = 2
    /\ Done(1)
    /\ Outstanding = {2}
    /\ ~hidden
    /\ content.kind = "result"

\* ---- tilt

Moved(c) == ev.kind = "move" /\ cards[c].transform.kind = "tilt"

Ten == Frac(10, 1)

MinusTen == Frac(-10, 1)

\* Both rotation angles of card c lie in [-10, 10] and its glare in [0, 1].
TiltWithinRange(c) ==
    /\ FracLe(MinusTen, cards[c].transform.rotateX)
    /\ FracLe(cards[c].transform.rotateX, Ten)
    /\ FracLe(MinusTen, cards[c].transform.rotateY)
    /\ FracLe(cards[c].transform.rotateY, Ten)
    /\ FracLe(GlareOne, cards[c].g)
    /\ FracLe(cards[c].g, GlareZero)

\* Where the pointer of the last move was in the box card c has now.
AtCentre(c) ==
    LET card == cards[c]
    IN  /\ 2 * (card.pointer.x - card.bounding.left) = card.bounding.width
        /\ 2 * (card.pointer.y - card.bounding.top) = card.bounding.height

OnLeft(c) == cards[c].pointer.x = cards[c].bounding.left

OnRight(c) == cards[c].pointer.x = cards[c].bounding.left + cards[c].bounding.width

OnTop(c) == cards[c].pointer.y = cards[c].bounding.top

OnBottom(c) == cards[c].pointer.y = cards[c].bounding.top + cards[c].bounding.height

AtCorner(c) == (OnLeft(c) \/ OnRight(c)) /\ (OnTop(c) \/ OnBottom(c))

\* C11 (as claimed): after a move over a card, wherever the pointer is, both
\* rotation angles lie in [-10, 10] and the glare in [0, 1]; with the pointer
\* at the exact centre of the card's box the rotation is (0, 0) and the glare
\* is 1; with the pointer at a corner of the box both angles have magnitude
\* 10, toward that corner, and the glare is 0.
C11_TiltFollowsPointer ==
    Moved("a") =>
        /\ TiltWithinRange("a")
        /\ AtCentre("a") =>
              /\ FracEq(cards["a"].transform.rotateX, Frac(0, 1))
              /\ FracEq(cards["a"].transform.rotateY, Frac(0, 1))
              /\ FracEq(cards["a"].g, GlareOne)
        /\ AtCorner("a") =>
              /\ FracEq(cards["a"].transform.rotateY, IF OnRight("a") THEN Ten ELSE MinusTen)
              /\ FracEq(cards["a"].transform.rotateX, IF OnTop("a") THEN Ten ELSE MinusTen)
              /\ FracEq(cards["a"].g, GlareZero)

\* The same, with the centre and the corners taken in the rectangle the
\* handlers hold (measured when the pointer entered), not in the box the
\* card has at the time of the move.
TiltFollowsMeasuredRect ==
    Moved("a") =>
        LET card == cards["a"]
            rx   == card.pointer.x - card.rect.left
            ry   == card.pointer.y - card.rect.top
        IN  /\ TiltWithinRange("a")
            /\ (2 * rx = card.rect.width /\ 2 * ry = card.rect.height) =>
                  /\ FracEq(card.transform.rotateX, Frac(0, 1))
                  /\ FracEq(card.transform.rotateY, Frac(0, 1))
                  /\ FracEq(card.g, GlareOne)
            /\ (rx \in {0, card.rect.width} /\ ry \in {0, card.rect.height}) =>
                  /\ FracEq(card.transform.rotateY, IF rx = 0 THEN MinusTen ELSE Ten)
                  /\ FracEq(card.transform.rotateX, IF ry = 0 THEN Ten ELSE MinusTen)
                  /\ FracEq(card.g, GlareZero)

Initialised(c) == cards[c].present /\ cards[c].tiltInit

\* C12: after any number of calls of initTiltCards every card it has matched
\* has exactly one set of pointer handlers and had its default glare
\* properties written once, a card it has not matched has none, and a call
\* leaves every card that was initialised before it exactly as it was.
C12_TiltInitIdempotent ==
    /\ [](\A c \in CardIds :
            /\ cards[c].tiltInit => (cards[c].handlerSets = 1 /\ cards[c].defaultWrites = 1)
            /\ ~cards[c].tiltInit => (cards[c].handlerSets = 0 /\ cards[c].defaultWrites = 0))
    /\ [][ev'.kind = "initTilt" =>
            \A c \in CardIds : Initialised(c) => cards'[c] = cards[c]]_vars

\* A call of initTiltCards has just run over card a, initialised before and
\* tilted by the pointer since, and card b, now initialised too.
C12_Witness ==
    /\ ev.kind = "initTilt"
    /\ Initialised("a")
    /\ cards["a"].transform.kind = "tilt"
    /\ ~FracEq(cards["a"].px, Frac(50, 1))
    /\ ~FracEq(cards["a"].g, GlareZero)
    /\ Initialised("b")
    /\ cards["b"].transform.kind = "none"

====
